---- MODULE Spec2Model ----
(***************************************************************************)
(* Model of src/avalanche-cli-mcp-server.ts: the CallTool dispatcher and   *)
(* its seven handlers, with the external environment they act on (the     *)
(* platform, the SHELL variable, the shell configuration files, the       *)
(* ~/bin directory and the installed binary).                              *)
(*                                                                         *)
(* A handler is an async function: the code between two awaits of real     *)
(* I/O runs without interleaving, so each such stretch is one action, and  *)
(* other requests may run between two stretches of the same handler.       *)
(***************************************************************************)
EXTENDS Bags, FiniteSets, Integers, Sequences, TLC

VARIABLES platform, arch, envSHELL, files, binDir, binary, elsewhere,
          homeBinOnPath, reqs, returned

vars == <<platform, arch, envSHELL, files, binDir, binary, elsewhere,
          homeBinOnPath, reqs, returned>>

env == <<platform, arch, envSHELL, elsewhere, homeBinOnPath>>

(* ---------------------------------------------------------------- bounds *)

\* Requests a client may have outstanding (dispatched, response not yet taken).
MaxInFlight == 2

\* Lines a configuration file may grow to before further appends are cut off.
MaxLines == 7

(* ------------------------------------------------------- JSON.stringify *)
\* A JSON value: k is its key inside an object ("" elsewhere), t its type,
\* s the pieces of a string (a template literal keeps its parts), items the
\* members of a list or an object.

JStr(k, s) == [k |-> k, t |-> "str", s |-> s, items |-> <<>>]

JBool(k, b) == [k |-> k, t |-> "bool", s |-> <<IF b THEN "true" ELSE "false">>, items |-> <<>>]

JList(k, ss) == [k |-> k, t |-> "list", s |-> <<>>, items |-> [i \in 1..Len(ss) |-> JStr("", <<ss[i]>>)]]

JObj(k, fields) == [k |-> k, t |-> "obj", s |-> <<>>, items |-> fields]

\* A token of serialized text: punctuation, a quoted string, a literal
\* (true/false), or a run of bare words (text that is not JSON).
Tok(c, s) == [c |-> c, s |-> s]

P(ch) == Tok("punct", <<ch>>)

RECURSIVE Stringify(_)
RECURSIVE StringifyItems(_, _, _)

\* members of a list or object, comma-separated; an object's carry "key":
StringifyItems(items, i, keyed) ==
    IF i > Len(items) THEN <<>>
    ELSE (IF i > 1 THEN <<P(",")>> ELSE <<>>)
         \o (IF keyed THEN <<Tok("str", <<items[i].k>>), P(":")>> ELSE <<>>)
         \o Stringify(items[i])
         \o StringifyItems(items, i + 1, keyed)

Stringify(v) ==
    CASE v.t = "str"  -> <<Tok("str", v.s)>>
      [] v.t = "bool" -> <<Tok("lit", v.s)>>
      [] v.t = "list" -> <<P("[")>> \o StringifyItems(v.items, 1, FALSE) \o <<P("]")>>
      [] v.t = "obj"  -> <<P("{")>> \o StringifyItems(v.items, 1, TRUE) \o <<P("}")>>

\* JSON.parse, as a caller deserializing the payload would run it.
ParseFail == [ok |-> FALSE, val |-> JStr("", <<>>), next |-> 0]

RECURSIVE ParseValue(_, _, _)
RECURSIVE ParseMembers(_, _, _, _, _)

ParseValue(toks, i, k) ==
    IF i > Len(toks) THEN ParseFail
    ELSE LET tk == toks[i] IN
         CASE tk.c = "str" -> [ok |-> TRUE, val |-> JStr(k, tk.s), next |-> i + 1]
           [] tk.c = "lit" -> [ok |-> TRUE,
                               val |-> [k |-> k, t |-> "bool", s |-> tk.s, items |-> <<>>],
                               next |-> i + 1]
           [] tk = P("[")  -> ParseMembers(toks, i + 1, k, FALSE, <<>>)
           [] tk = P("{")  -> ParseMembers(toks, i + 1, k, TRUE, <<>>)
           [] OTHER        -> ParseFail

ParseMembers(toks, i, k, keyed, acc) ==
    LET close == IF keyed THEN P("}") ELSE P("]")
        done  == [ok |-> TRUE,
                  val |-> [k |-> k, t |-> IF keyed THEN "obj" ELSE "list",
                           s |-> <<>>, items |-> acc],
                  next |-> i + 1]
        \* position of the next member, after the comma that separates it
        j     == IF acc = <<>> THEN i ELSE i + 1
        sepOK == acc = <<>> \/ (i <= Len(toks) /\ toks[i] = P(","))
    IN  IF i > Len(toks) THEN ParseFail
        ELSE IF toks[i] = close THEN done
        ELSE IF ~sepOK THEN ParseFail
        ELSE IF keyed
             THEN IF j + 1 <= Len(toks) /\ toks[j].c = "str" /\ Len(toks[j].s) = 1
                     /\ toks[j + 1] = P(":")
                  THEN LET m == ParseValue(toks, j + 2, toks[j].s[1])
                       IN  IF m.ok THEN ParseMembers(toks, m.next, k, keyed, Append(acc, m.val))
                           ELSE ParseFail
                  ELSE ParseFail
             ELSE LET m == ParseValue(toks, j, "")
                  IN  IF m.ok THEN ParseMembers(toks, m.next, k, keyed, Append(acc, m.val))
                      ELSE ParseFail

JSONparse(text) ==
    LET r == ParseValue(text, 1, "")
    IN  IF r.ok /\ r.next = Len(text) + 1 THEN [ok |-> TRUE, val |-> r.val]
        ELSE [ok |-> FALSE, val |-> JStr("", <<>>)]

\* field lookup in a parsed object; <<>> when the field is absent
Field(obj, key) ==
    LET hits == {i \in 1..Len(obj.items) : obj.items[i].k = key}
    IN  IF obj.t = "obj" /\ hits # {} THEN <<obj.items[CHOOSE i \in hits : TRUE]>> ELSE <<>>

(* ---------------------------------------------------------- environment *)

\* os.homedir(); a path is the sequence of its segments, path.join is \o
HomeDir == <<"home", "user">>

PathJoin(a, b) == a \o b

\* path.basename: the last segment
Basename(p) == p[Len(p)]

Range(f) == {f[i] : i \in DOMAIN f}

Registered == {"check_compatibility", "install_avalanche_cli", "check_installation",
               "setup_path", "get_installation_info", "update_avalanche_cli",
               "build_from_source"}

\* the object literal shellConfigs, in insertion order
ShellKeys == <<"bash", "zsh", "fish">>

shellConfigs == [s \in Range(ShellKeys) |->
                    CASE s = "bash" -> <<".bashrc">>
                      [] s = "zsh"  -> <<".zshrc">>
                      [] s = "fish" -> <<".config", "fish", "config.fish">>]

\* property names an object literal inherits from Object.prototype
ObjectPrototypeKeys == {"constructor", "__proto__", "toString"}

\* shellConfigs[shell]: an own property is the file name, an inherited one is
\* a function or object (truthy, not a string), anything else is undefined
ShellConfigLookup(shell) ==
    IF shell \in DOMAIN shellConfigs THEN [kind |-> "string", path |-> shellConfigs[shell]]
    ELSE IF shell \in ObjectPrototypeKeys THEN [kind |-> "inherited", path |-> <<>>]
    ELSE [kind |-> "undefined", path |-> <<>>]

ConfigPaths == {PathJoin(HomeDir, shellConfigs[s]) : s \in DOMAIN shellConfigs}

\* A line of a configuration file is a sequence of words; a word is a
\* sequence of segments, so that a path inside a line is the path itself.
TildeBin == <<"~", "bin">>

ExportLine(shell) ==
    IF shell = "fish"
    THEN << <<"set">>, <<"-gx">>, <<"PATH">>, TildeBin, <<"$PATH">> >>
    ELSE << <<"export">>, <<"PATH=">>, TildeBin, <<":$PATH">> >>

CommentLine == << <<"#">>, <<"Added by Avalanche CLI MCP Server">> >>

\* `\n# Added by Avalanche CLI MCP Server\n${exportLine}\n`
AppendBlock(shell) == << <<>>, CommentLine, ExportLine(shell) >>

\* String.prototype.includes over the file's text
Includes(lines, word) == \E i \in 1..Len(lines) : word \in Range(lines[i])

RECURSIVE Flatten(_)
Flatten(ws) == IF ws = <<>> THEN <<>> ELSE Head(ws) \o Flatten(Tail(ws))

\* configContent.includes('~/bin') || configContent.includes(binPath)
AlreadyConfigured(lines, binPath) == Includes(lines, TildeBin) \/ Includes(lines, binPath)

Absent == [exists |-> FALSE, lines |-> <<>>, readable |-> TRUE, writable |-> TRUE]

Present(lines, r, w) == [exists |-> TRUE, lines |-> lines, readable |-> r, writable |-> w]

\* `which avalanche`: found in some other PATH directory, or in ~/bin when
\* ~/bin is on the PATH
WhichSucceeds == elsewhere \/ (binary # "none" /\ homeBinOnPath)

\* stdout of `avalanche --version` and its trim()
VersionStdout == IF binary # "none" /\ homeBinOnPath THEN <<binary, "\n">> ELSE <<"v0.9", "\n">>

Trim(out) == IF out # <<>> /\ out[Len(out)] = "\n" THEN SubSeq(out, 1, Len(out) - 1) ELSE out

(* --------------------------------------------------------------- requests *)

NoResp == [kind |-> "none", data |-> JStr("", <<>>), text |-> <<>>, code |-> "", message |-> <<>>]

\* { content: [{ type: "text", text: JSON.stringify(data, null, 2) }] }
JsonContent(data) ==
    [kind |-> "result", data |-> data, text |-> Stringify(data), code |-> "", message |-> <<>>]

\* { content: [{ type: "text", text: "<a sentence>" }] }
TextContent(words) ==
    [kind |-> "result", data |-> JStr("", words), text |-> <<Tok("words", words)>>,
     code |-> "", message |-> <<>>]

\* new McpError(code, message): the SDK prefixes the message with the code
McpError(code, message) ==
    [kind |-> "error", data |-> JStr("", <<>>), text |-> <<>>, code |-> code,
     message |-> <<"MCP error ", code, ": ">> \o message]

\* the dispatcher's catch: whatever was thrown becomes an InternalError
\* carrying the thrown error's message
CallToolCatch(message) == McpError("InternalError", message)

NoArgs == [force |-> <<>>, shell |-> <<>>, tag |-> <<>>]

NewReq(name, args) ==
    [op |-> name, args |-> args, force |-> FALSE, shell |-> "", cfg |-> <<>>,
     pc |-> "start", did |-> {}, probe |-> "none", found |-> "none", cur |-> <<>>,
     script |-> "none", solo |-> FALSE, prev |-> <<>>, after |-> <<>>, resp |-> NoResp]

Return(r, resp) == [r EXCEPT !.pc = "done", !.resp = resp]

At(r, pc) == [r EXCEPT !.pc = pc]

Did(r, what) == [r EXCEPT !.did = @ \cup {what}]

InFlight == BagToSet(reqs)

Running == {r \in InFlight : r.pc # "done"}

Replace(r, r2) == (reqs (-) SetToBag({r})) (+) SetToBag({r2})

\* { success: false, error: error.message }
FailurePayload(message) == JObj("", <<JBool("success", FALSE), JStr("error", message)>>)

(* ---------------------------------------------------------- pure handlers *)

IsCompatible(p) == p = "linux" \/ p = "darwin"

checkCompatibility(r) ==
    Return(r, JsonContent(JObj("", <<
        JBool("compatible", IsCompatible(platform)),
        JStr("platform", <<platform>>),
        JStr("architecture", <<arch>>),
        JStr("message", IF IsCompatible(platform)
                        THEN <<"Your system is compatible with Avalanche CLI">>
                        ELSE <<"Avalanche CLI currently supports Linux and macOS only. Windows is not supported.">>)
    >>)))

InstallCommand == "curl -sSfL https://raw.githubusercontent.com/ava-labs/avalanche-cli/main/scripts/install.sh | sh -s"

getInstallationInfo(r) ==
    Return(r, JsonContent(JObj("", <<
        JStr("title", <<"Avalanche CLI Installation Guide">>),
        JObj("compatibility", <<
            JList("supported_os", <<"Linux", "macOS">>),
            JList("unsupported_os", <<"Windows">>) >>),
        JObj("installation", <<
            JStr("command", <<InstallCommand>>),
            JStr("install_location", <<"~/bin/avalanche">>),
            JStr("description", <<"Downloads and installs the latest binary release">>) >>),
        JObj("path_setup", <<
            JStr("bash", <<"export PATH=~/bin:$PATH >> ~/.bashrc">>),
            JStr("zsh", <<"export PATH=~/bin:$PATH >> ~/.zshrc">>),
            JStr("fish", <<"set -gx PATH ~/bin $PATH >> ~/.config/fish/config.fish">>) >>),
        JObj("verification", <<
            JStr("command", <<"avalanche --version">>),
            JStr("description", <<"Check installation and version">>) >>),
        JObj("updating", <<
            JStr("method", <<"Delete current binary and reinstall">>),
            JStr("description", <<"No built-in update mechanism">>) >>),
        JObj("source_build", <<
            JStr("repository", <<"https://github.com/ava-labs/avalanche-cli">>),
            JStr("build_script", <<"./scripts/build.sh">>),
            JStr("output_binary", <<"./bin/avalanche">>) >>)
    >>)))

\* `tag ? ... : ...`: undefined and the empty string are both falsy
Truthy(opt) == opt # <<>> /\ opt[1] # ""

\* the third entry of steps: the sentence, then the token after "git checkout "
StepsCheckout(tag) ==
    IF Truthy(tag) THEN <<"Checkout specific tag: git checkout ", tag[1]>>
    ELSE <<"Checkout desired tag: git checkout ", "<tag>">>

\* the third entry of commands
CommandsCheckout(tag) ==
    IF Truthy(tag) THEN <<"git checkout ", tag[1]>>
    ELSE <<"git checkout ", "<desired-tag>">>

StrItems(k, ss) == [k |-> k, t |-> "list", s |-> <<>>, items |-> ss]

getBuildFromSourceInfo(r, tag) ==
    Return(r, JsonContent(JObj("", <<
        JStr("title", <<"Building Avalanche CLI from Source">>),
        JStr("repository", <<"https://github.com/ava-labs/avalanche-cli">>),
        StrItems("steps", <<
            JStr("", <<"Clone the repository: git clone https://github.com/ava-labs/avalanche-cli.git">>),
            JStr("", <<"Navigate to the directory: cd avalanche-cli">>),
            JStr("", StepsCheckout(tag)),
            JStr("", <<"Build the binary: ./scripts/build.sh">>),
            JStr("", <<"Binary will be available at: ./bin/avalanche">>) >>),
        StrItems("commands", <<
            JStr("", <<"git clone https://github.com/ava-labs/avalanche-cli.git">>),
            JStr("", <<"cd avalanche-cli">>),
            JStr("", CommandsCheckout(tag)),
            JStr("", <<"./scripts/build.sh">>) >>),
        JObj("output", <<
            JStr("binary_location", <<"./bin/avalanche">>),
            JStr("description", <<"The compiled binary will be named 'avalanche' in the bin directory">>) >>),
        JStr("note", <<"Building from source allows you to use specific versions or contribute to development">>)
    >>)))

(* ------------------------------------------------------ installAvalancheCLI *)

BinDirPath == PathJoin(HomeDir, <<"bin">>)

BinaryPath == PathJoin(HomeDir, <<"bin", "avalanche">>)

\* the version the install script fetches
Latest == "v2"

\* (a variant that lets the Windows family through)
InstallPlatformSupported_win(p) == p = "linux" \/ p = "darwin" \/ p = "win32"

\* platform !== 'linux' && platform !== 'darwin' throws
InstallPlatformSupported(p) == p = "linux" \/ p = "darwin"

\* args?.force || false
ForceArg(args) == IF args.force = <<>> THEN FALSE ELSE args.force[1]

\* (a variant that never probes)
ShouldProbe_never(force) == FALSE

\* if (!force) { try { await execAsync('which avalanche'); return ... } }
ShouldProbe(force) == ~force

AlreadyInstalledText ==
    <<"Avalanche CLI is already installed. Use 'force: true' to reinstall or use the update tool.">>

\* up to the first await: the platform check, then the probe or the access
installAvalancheCLI(r, force) ==
    LET r1 == [r EXCEPT !.force = force]
    IN  IF ~InstallPlatformSupported(platform)
        THEN Return(r1, JsonContent(FailurePayload(
                 <<"Avalanche CLI is not supported on this platform. Only Linux and macOS are supported.">>)))
        ELSE IF ShouldProbe(force) THEN At(r1, "which") ELSE At(r1, "access")

\* await execAsync('which avalanche'): found returns the sentence, a failure
\* is swallowed and the installation goes on
InstallWhich(r) ==
    /\ r.op = "install_avalanche_cli" /\ r.pc = "which"
    /\ LET r1 == Did(r, "which")
       IN  reqs' = Replace(r, IF WhichSucceeds
                              THEN Return([r1 EXCEPT !.probe = "found"], TextContent(AlreadyInstalledText))
                              ELSE At([r1 EXCEPT !.probe = "missing"], "access"))
    /\ UNCHANGED <<env, files, binDir, binary, returned>>

\* await fs.access(binDir)
InstallAccess(r) ==
    /\ r.op = "install_avalanche_cli" /\ r.pc = "access"
    /\ reqs' = Replace(r, At(Did(r, "access"), IF binDir THEN "script" ELSE "mkdir"))
    /\ UNCHANGED <<env, files, binDir, binary, returned>>

\* await fs.mkdir(binDir, { recursive: true }): no error when it exists by now
InstallMkdir(r) ==
    /\ r.op = "install_avalanche_cli" /\ r.pc = "mkdir"
    /\ \E ok \in BOOLEAN :
         /\ binDir => ok
         /\ binDir' = (binDir \/ ok)
         /\ reqs' = Replace(r, IF ok THEN At(Did(r, "mkdir"), "script")
                               ELSE Return(Did(r, "mkdir"), JsonContent(FailurePayload(
                                        <<"EACCES: permission denied, mkdir ">> \o BinDirPath))))
    /\ UNCHANGED <<env, files, binary, returned>>

InstalledPayload ==
    JObj("", <<
        JBool("success", TRUE),
        JStr("message", <<"Avalanche CLI installed successfully">>),
        JStr("stdout", <<"<install script stdout>">>),
        JStr("stderr", <<"<install script stderr>">>),
        JList("next_steps", <<"Add ~/bin to your PATH if not already done",
                              "Run 'avalanche --version' to verify installation">>) >>)

\* await execAsync(installCommand): the script either installs the latest
\* binary into ~/bin or fails and leaves things as they are
InstallScript(r) ==
    /\ r.op = "install_avalanche_cli" /\ r.pc = "script"
    /\ \E ok \in BOOLEAN :
         /\ binary' = IF ok THEN Latest ELSE binary
         /\ binDir' = (binDir \/ ok)
         /\ reqs' = Replace(r, LET r1 == [Did(r, "script") EXCEPT !.script = IF ok THEN "ok" ELSE "fail"]
                               IN  IF ok THEN Return(r1, JsonContent(InstalledPayload))
                                   ELSE Return(r1, JsonContent(FailurePayload(
                                            <<"Command failed: ", InstallCommand>>))))
    /\ UNCHANGED <<env, files, returned>>

(* --------------------------------------------------------- checkInstallation *)

NotInstalledPayload ==
    JObj("", <<
        JBool("installed", FALSE),
        JStr("error", <<"Avalanche CLI not found in PATH">>),
        JStr("suggestion", <<"Run the install_avalanche_cli tool to install it">>) >>)

\* stdout of `which avalanche`
WhichStdout ==
    (IF binary # "none" /\ homeBinOnPath THEN BinaryPath ELSE <<"usr", "local", "bin", "avalanche">>)
    \o <<"\n">>

checkInstallation(r) == At(r, "version")

\* await execAsync('avalanche --version')
CheckVersion(r) ==
    /\ r.op = "check_installation" /\ r.pc = "version"
    /\ reqs' = Replace(r, IF WhichSucceeds
                          THEN At([Did(r, "version") EXCEPT !.cur = Trim(VersionStdout)], "which")
                          ELSE Return(Did(r, "version"), JsonContent(NotInstalledPayload)))
    /\ UNCHANGED <<env, files, binDir, binary, returned>>

\* await execAsync('which avalanche')
CheckWhich(r) ==
    /\ r.op = "check_installation" /\ r.pc = "which"
    /\ reqs' = Replace(r, IF WhichSucceeds
                          THEN Return(Did(r, "which"), JsonContent(JObj("", <<
                                   JBool("installed", TRUE),
                                   JStr("version", r.cur),
                                   JStr("path", Trim(WhichStdout)) >>)))
                          ELSE Return(Did(r, "which"), JsonContent(NotInstalledPayload)))
    /\ UNCHANGED <<env, files, binDir, binary, returned>>

(* --------------------------------------------------------- updateAvalancheCLI *)

updateAvalancheCLI(r) == At(r, "access")

\* (a variant that goes on to the version query whatever fs.access says)
UpdateAccess_goesOn(r) ==
    /\ r.op = "update_avalanche_cli" /\ r.pc = "access"
    /\ reqs' = Replace(r, At([Did(r, "access") EXCEPT !.found = IF binary # "none" THEN "yes" ELSE "no"],
                             "version"))
    /\ UNCHANGED <<env, files, binDir, binary, returned>>

\* await fs.access(binPath): absent returns "not found", nothing touched
UpdateAccess(r) ==
    /\ r.op = "update_avalanche_cli" /\ r.pc = "access"
    /\ reqs' = Replace(r, IF binary # "none"
                          THEN At([Did(r, "access") EXCEPT !.found = "yes"], "version")
                          ELSE Return([Did(r, "access") EXCEPT !.found = "no"],
                                      JsonContent(JObj("", <<
                                          JBool("success", FALSE),
                                          JStr("error", <<"Avalanche CLI not found at ~/bin/avalanche">>),
                                          JStr("suggestion", <<"Use install_avalanche_cli tool to install it first">>) >>))))
    /\ UNCHANGED <<env, files, binDir, binary, returned>>

\* await execAsync('avalanche --version'), 'unknown' when it fails
UpdateVersion(r) ==
    /\ r.op = "update_avalanche_cli" /\ r.pc = "version"
    /\ reqs' = Replace(r, At([Did(r, "version") EXCEPT
                                 !.cur = IF WhichSucceeds THEN Trim(VersionStdout) ELSE <<"unknown">>],
                             "unlink"))
    /\ UNCHANGED <<env, files, binDir, binary, returned>>

\* await fs.unlink(binPath): throws when the binary is gone by now
UpdateUnlink(r) ==
    /\ r.op = "update_avalanche_cli" /\ r.pc = "unlink"
    /\ binary' = "none"
    /\ reqs' = Replace(r, IF binary # "none"
                          THEN At(Did(r, "unlink"), "script")
                          ELSE Return(r, JsonContent(FailurePayload(
                                   <<"ENOENT: no such file or directory, unlink ">> \o BinaryPath))))
    /\ UNCHANGED <<env, files, binDir, returned>>

\* await execAsync(installCommand): a failure is caught by the outer catch
UpdateScript(r) ==
    /\ r.op = "update_avalanche_cli" /\ r.pc = "script"
    /\ \E ok \in BOOLEAN :
         /\ binary' = IF ok THEN Latest ELSE binary
         /\ binDir' = (binDir \/ ok)
         /\ reqs' = Replace(r, LET r1 == [Did(r, "script") EXCEPT !.script = IF ok THEN "ok" ELSE "fail"]
                               IN  IF ok THEN At(r1, "newversion")
                                   ELSE Return(r1, JsonContent(FailurePayload(
                                            <<"Command failed: ", InstallCommand>>))))
    /\ UNCHANGED <<env, files, returned>>

\* await execAsync('avalanche --version') again, then the success payload
UpdateNewVersion(r) ==
    /\ r.op = "update_avalanche_cli" /\ r.pc = "newversion"
    /\ reqs' = Replace(r, Return(Did(r, "version"), JsonContent(JObj("", <<
                   JBool("success", TRUE),
                   JStr("message", <<"Avalanche CLI updated successfully">>),
                   JStr("previous_version", r.cur),
                   JStr("new_version", IF WhichSucceeds THEN Trim(VersionStdout) ELSE <<"unknown">>),
                   JStr("stdout", <<"<install script stdout>">>),
                   JStr("stderr", <<"<install script stderr>">>) >>))))
    /\ UNCHANGED <<env, files, binDir, binary, returned>>

(* ------------------------------------------------------------------ setupPath *)

\* if (!shell) shell = path.basename(process.env.SHELL || 'bash'): undefined
\* and '' are both falsy, and so is an unset or empty SHELL
ResolveShell(arg) ==
    IF arg = <<>> \/ arg = <<"">>
    THEN Basename(IF envSHELL = <<>> THEN <<"bash">> ELSE envSHELL)
    ELSE arg[1]

UnsupportedShellPayload(shell) ==
    JObj("", <<
        JBool("success", FALSE),
        JStr("error", <<"Unsupported shell: ", shell>>),
        JList("supported_shells", ShellKeys) >>)

\* no other request is running when this one is dispatched
Alone == Running = {}

\* up to the first await: resolve the shell, look its file up, build the path.
\* path.join throws a TypeError on an argument that is not a string, and it
\* stands outside the handler's try, so the dispatcher's catch receives it.
setupPath(r, arg) ==
    LET shell == ResolveShell(arg)
        found == ShellConfigLookup(shell)
        r1    == [r EXCEPT !.shell = shell]
        cfg   == PathJoin(HomeDir, found.path)
    IN  CASE found.kind = "undefined" -> Return(r1, JsonContent(UnsupportedShellPayload(shell)))
          [] found.kind = "inherited" -> Return(r1, CallToolCatch(
                 <<"The \"path\" argument must be of type string. Received a value inherited from Object.prototype">>))
          [] found.kind = "string"    ->
                 At([r1 EXCEPT !.cfg = cfg, !.solo = Alone,
                               !.prev = IF Alone /\ cfg \in returned THEN <<files[cfg]>> ELSE <<>>],
                    "read")

\* what fs.readFile yields into configContent: any failure is swallowed and
\* leaves '' (a missing file, and equally one that cannot be read)
ReadConfig(f) == IF f.exists /\ f.readable THEN f.lines ELSE <<>>

\* await fs.readFile(configPath), then the check up to the call of appendFile
SetupRead(r) ==
    /\ r.op = "setup_path" /\ r.pc = "read"
    /\ LET r1 == Did(r, "read")
       IN  IF AlreadyConfigured(ReadConfig(files[r.cfg]), BinDirPath)
           THEN /\ reqs' = Replace(r, Return([r1 EXCEPT !.after = <<files[r.cfg]>>],
                               JsonContent(JObj("", <<
                                   JBool("success", TRUE),
                                   JStr("message", <<"PATH already contains ~/bin directory">>),
                                   JStr("current_config", r.cfg) >>))))
                /\ returned' = returned \cup {r.cfg}
           ELSE /\ reqs' = Replace(r, At(r1, "append"))
                /\ UNCHANGED returned
    /\ UNCHANGED <<env, files, binDir, binary>>

\* fs.appendFile creates a missing file; it fails on a file that cannot be
\* written and on a missing one whose directory cannot take it
CanAppend(f) == f.writable

\* await fs.appendFile(configPath, block)
SetupAppend(r) ==
    /\ r.op = "setup_path" /\ r.pc = "append"
    /\ LET f  == files[r.cfg]
           f2 == Present(f.lines \o AppendBlock(r.shell), f.readable, TRUE)
           r1 == Did(r, "append")
       IN  IF CanAppend(f)
           THEN /\ Len(f2.lines) <= MaxLines
                /\ files' = [files EXCEPT ![r.cfg] = f2]
                /\ reqs' = Replace(r, Return([r1 EXCEPT !.after = <<f2>>],
                               JsonContent(JObj("", <<
                                   JBool("success", TRUE),
                                   JStr("message", <<"Added ~/bin to PATH in ">> \o r.cfg),
                                   JStr("instruction", <<"Restart your terminal or run 'source ">> \o r.cfg
                                                           \o <<"' to apply changes">>),
                                   JStr("added_line", Flatten(ExportLine(r.shell))) >>))))
           ELSE /\ UNCHANGED files
                /\ reqs' = Replace(r, Return([r1 EXCEPT !.after = <<f>>],
                               JsonContent(FailurePayload(
                                   <<IF f.exists THEN "EACCES: permission denied, open "
                                                 ELSE "ENOENT: no such file or directory, open ">>
                                   \o r.cfg))))
    /\ returned' = returned \cup {r.cfg}
    /\ UNCHANGED <<env, binDir, binary>>

(* ----------------------------------------------------------------- dispatcher *)

\* the CallToolRequestSchema handler: the switch on the name, each case run
\* up to the handler's first await; the default throws inside the same try
\* whose catch rethrows everything as InternalError
CallTool(name, args) ==
    /\ BagCardinality(reqs) < MaxInFlight
    /\ LET r  == NewReq(name, args)
           r1 == CASE name = "check_compatibility"   -> checkCompatibility(r)
                   [] name = "install_avalanche_cli" -> installAvalancheCLI(r, ForceArg(args))
                   [] name = "check_installation"    -> checkInstallation(r)
                   [] name = "setup_path"            -> setupPath(r, args.shell)
                   [] name = "get_installation_info" -> getInstallationInfo(r)
                   [] name = "update_avalanche_cli"  -> updateAvalancheCLI(r)
                   [] name = "build_from_source"     -> getBuildFromSourceInfo(r, args.tag)
                   [] OTHER -> Return(r, CallToolCatch(
                                   McpError("MethodNotFound", <<"Unknown tool: ", name>>).message))
       IN  reqs' = BagOfAll(LAMBDA q : IF q.pc = "done" THEN q ELSE [q EXCEPT !.solo = FALSE], reqs)
                   (+) SetToBag({r1})
    /\ UNCHANGED <<env, files, binDir, binary, returned>>

\* the client takes the response of a finished request
Retire(r) ==
    /\ r.pc = "done"
    /\ reqs' = reqs (-) SetToBag({r})
    /\ UNCHANGED <<env, files, binDir, binary, returned>>

(* --------------------------------------------------------------- the inputs *)

Platforms == {"linux", "darwin", "win32"}

Archs == {"x64", "arm64"}

\* process.env.SHELL: unset, a supported shell, an unsupported one
EnvShells == {<<>>, <<"bin", "zsh">>, <<"usr", "bin", "tcsh">>}

UnknownNames == {"uninstall_avalanche_cli", "setup_paths"}

OtherLine == << <<"alias">>, <<"ll=ls -l">> >>

AbsoluteLine == << <<"export">>, <<"PATH=">>, BinDirPath, <<":$PATH">> >>

\* a configuration file as the user may have left it
ReadableFiles == {Absent,
                  Present(<<OtherLine>>, TRUE, TRUE),
                  Present(<<ExportLine("bash")>>, TRUE, TRUE),
                  Present(<<AbsoluteLine>>, TRUE, TRUE),
                  Present(<<OtherLine>>, TRUE, FALSE),
                  [Absent EXCEPT !.writable = FALSE]}

InitFileStates == ReadableFiles \cup {Present(<<ExportLine("bash")>>, FALSE, TRUE)}

ArgsFor(name) ==
    CASE name = "install_avalanche_cli" -> {[NoArgs EXCEPT !.force = f] : f \in {<<>>, <<TRUE>>, <<FALSE>>}}
      [] name = "setup_path" -> {[NoArgs EXCEPT !.shell = s] :
                                   s \in {<<>>, <<"bash">>, <<"zsh">>, <<"fish">>,
                                          <<"powershell">>, <<"constructor">>}}
      [] name = "build_from_source" -> {[NoArgs EXCEPT !.tag = t] : t \in {<<>>, <<"">>, <<"v1.2.3">>}}
      [] OTHER -> {NoArgs}

Call(names) == \E name \in names : \E args \in ArgsFor(name) : CallTool(name, args)

Init ==
    /\ platform \in Platforms
    /\ arch \in Archs
    /\ envSHELL \in EnvShells
    /\ \E f \in InitFileStates : files = [p \in ConfigPaths |-> f]
    /\ binary \in {"none", "v1"}
    /\ binDir \in BOOLEAN
    /\ binary # "none" => binDir
    /\ elsewhere \in BOOLEAN
    /\ homeBinOnPath \in BOOLEAN
    /\ reqs = EmptyBag
    /\ returned = {}

Take == \E r \in InFlight : Retire(r)

PathStep ==
    \/ \E r \in InFlight : SetupRead(r)
    \/ \E r \in InFlight : SetupAppend(r)

InstallStep ==
    \/ \E r \in InFlight : InstallWhich(r)
    \/ \E r \in InFlight : InstallAccess(r)
    \/ \E r \in InFlight : InstallMkdir(r)
    \/ \E r \in InFlight : InstallScript(r)
    \/ \E r \in InFlight : CheckVersion(r)
    \/ \E r \in InFlight : CheckWhich(r)
    \/ \E r \in InFlight : UpdateAccess(r)
    \/ \E r \in InFlight : UpdateVersion(r)
    \/ \E r \in InFlight : UpdateUnlink(r)
    \/ \E r \in InFlight : UpdateScript(r)
    \/ \E r \in InFlight : UpdateNewVersion(r)

Next == Call(Registered \cup UnknownNames) \/ PathStep \/ InstallStep \/ Take

Spec == Init /\ [][Next]_vars

(* ------------------------------------------------- the parts, each alone *)
\* The handlers share no state across three groups (the informational ones,
\* setup_path and the configuration files, install/check/update and the
\* binary), so each group is also explored alone, over all of its inputs,
\* with the environment of the other groups held at one value.

QuietFiles == files = [p \in ConfigPaths |-> Absent]

QuietBinary == binary = "none" /\ ~binDir /\ ~elsewhere /\ homeBinOnPath

InfoNames == {"check_compatibility", "get_installation_info", "build_from_source"}

InitInfo == Init /\ envSHELL = <<>> /\ QuietFiles /\ QuietBinary

NextInfo == Call(InfoNames \cup UnknownNames) \/ Take

SpecInfo == InitInfo /\ [][NextInfo]_vars

InitPath == Init /\ platform = "linux" /\ arch = "x64" /\ QuietBinary

NextPath == Call({"setup_path"}) \/ PathStep \/ Take

SpecPath == InitPath /\ [][NextPath]_vars

\* the same, every configuration file readable when it exists
InitReadable == InitPath /\ \A p \in ConfigPaths : files[p] \in ReadableFiles

SpecReadable == InitReadable /\ [][NextPath]_vars

InstallNames == {"install_avalanche_cli", "check_installation", "update_avalanche_cli"}

InitInstall == Init /\ arch = "x64" /\ envSHELL = <<>> /\ QuietFiles

NextInstall == Call(InstallNames) \/ InstallStep \/ Take

SpecInstall == InitInstall /\ [][NextInstall]_vars

(* ------------------------------------------------------------- the claims *)

Finished == {r \in InFlight : r.pc = "done"}

\* the payload as the caller deserializes it
Payload(r) == JSONparse(r.resp.text)

\* the payload is an object whose success field is false
SaysFailure(r) ==
    /\ r.resp.kind = "result"
    /\ Payload(r).ok
    /\ Field(Payload(r).val, "success") = <<JBool("success", FALSE)>>

\* C1: a request whose name is none of the seven registered names fails with
\* a protocol error of kind "method not found" whose message carries the name.
C1_UnknownNameIsMethodNotFound ==
    \A r \in Finished :
        r.op \notin {"check_compatibility", "install_avalanche_cli", "check_installation",
                     "setup_path", "get_installation_info", "update_avalanche_cli",
                     "build_from_source"}
        => /\ r.resp.kind = "error"
           /\ r.resp.code = "MethodNotFound"
           /\ r.op \in Range(r.resp.message)

\* C2: a setup_path call that runs alone, right after an earlier setup_path
\* call for the same configuration file has returned, leaves the file with
\* exactly the content it had after that earlier call.
C2_SecondCallLeavesFile ==
    \A r \in Finished :
        (r.op = "setup_path" /\ r.solo /\ r.prev # <<>>) => r.after = r.prev

\* C3: under every interleaving of concurrent setup_path requests, no append
\* is performed on a configuration file that already contains "~/bin" or the
\* expanded <home>/bin path.
C3_NoAppendOnConfiguredFile ==
    [][\A p \in ConfigPaths :
          files'[p] # files[p] =>
              ~(Includes(files[p].lines, <<"~", "bin">>)
                \/ Includes(files[p].lines, <<"home", "user", "bin">>))]_vars

\* C4: for a shell name other than bash, zsh, fish (given or derived from
\* SHELL), setup_path touches no file, raises nothing to the dispatcher and
\* returns success:false, an error naming the shell, and supported_shells
\* equal to [bash, zsh, fish].
C4_UnsupportedShellIsReported ==
    \A r \in InFlight :
        (r.op = "setup_path" /\ r.shell \notin {"bash", "zsh", "fish"})
        => /\ r.pc = "done"
           /\ r.did = {}
           /\ SaysFailure(r)
           /\ \E e \in Range(Payload(r).val.items) : e.k = "error" /\ r.shell \in Range(e.s)
           /\ Field(Payload(r).val, "supported_shells")
                  = <<JList("supported_shells", <<"bash", "zsh", "fish">>)>>

\* C5: install_avalanche_cli with force false or omitted whose `which` probe
\* succeeded returns a result that is no failure, having created no directory
\* and run no install script; the script is run only if force is true or the
\* probe failed.
C5_InstalledShortCircuit ==
    \A r \in InFlight :
        r.op = "install_avalanche_cli"
        => /\ (r.args.force \in {<<>>, <<FALSE>>} /\ r.probe = "found")
                  => /\ r.pc = "done"
                     /\ r.resp.kind = "result"
                     /\ ~SaysFailure(r)
                     /\ r.did \cap {"mkdir", "script"} = {}
           /\ "script" \in r.did => (r.args.force = <<TRUE>> \/ r.probe = "missing")

C5_Witness ==
    \E r \in Finished :
        /\ r.op = "install_avalanche_cli" /\ r.args.force \in {<<>>, <<FALSE>>}
        /\ r.probe = "found" /\ platform \in {"linux", "darwin"}

\* C6: on a platform other than linux and darwin, install_avalanche_cli (for
\* either force) returns a success:false payload and probes nothing, creates
\* no directory and runs no script; nothing is raised to the dispatcher.
C6_UnsupportedPlatform ==
    \A r \in InFlight :
        (r.op = "install_avalanche_cli" /\ platform \notin {"linux", "darwin"})
        => /\ r.pc = "done"
           /\ SaysFailure(r)
           /\ r.did = {}

C6_Witness ==
    \E r \in Finished :
        r.op = "install_avalanche_cli" /\ platform = "win32" /\ r.args.force = <<TRUE>>

\* C7: update_avalanche_cli that finds no accessible binary at
\* <home>/bin/avalanche returns success:false and has queried no version,
\* deleted no file and run no install script.
C7_UpdateWithoutBinary ==
    \A r \in InFlight :
        (r.op = "update_avalanche_cli" /\ r.found = "no")
        => /\ r.pc = "done"
           /\ SaysFailure(r)
           /\ r.did \cap {"version", "unlink", "script", "mkdir"} = {}

C7_Witness ==
    \E r \in Finished : r.op = "update_avalanche_cli" /\ r.found = "no"

\* C8: every payload a handler returns, on every path, is serialized
\* structured data that deserializes back to the fields the handler built.
C8_PayloadRoundTrips ==
    \A r \in Finished :
        r.resp.kind = "result" => (Payload(r).ok /\ Payload(r).val = r.resp.data)

\* the token that follows "git checkout " in the third entry of a list
CheckoutToken(r, list) ==
    LET e == Field(Payload(r).val, list)[1].items[3].s IN e[Len(e)]

\* C9: build_from_source with a tag T carries T in the checkout entry of
\* steps and of commands; with no tag, the two entries carry one and the
\* same placeholder token.
C9_TagConsistent ==
    \A r \in Finished :
        r.op = "build_from_source"
        => IF r.args.tag # <<>> /\ r.args.tag # <<"">>
           THEN CheckoutToken(r, "steps") = r.args.tag[1]
                /\ CheckoutToken(r, "commands") = r.args.tag[1]
           ELSE CheckoutToken(r, "steps") = CheckoutToken(r, "commands")

\* C10: no update_avalanche_cli that deleted the binary has returned without
\* its install script having completed successfully and put a binary back.
C10_DeletedBinaryIsReplaced ==
    \A r \in Finished :
        (r.op = "update_avalanche_cli" /\ "unlink" \in r.did) => r.script = "ok"

====
